---- MODULE Spec2Model ----
(***************************************************************************)
(* State-machine model of NgxLoadWithDirective                             *)
(* (projects/ngx-load-with/src/lib/ngx-load-with.directive.ts).            *)
(*                                                                         *)
(* The directive is an RxJS pipeline: three Subjects (request, cancel,     *)
(* override) feed merge/scan; the request Subject also feeds               *)
(* debounce -> tap(loadStart) -> switchMap(load function).  Every public   *)
(* method and every asynchronous callback (debounce timer, load-function   *)
(* emission / error / completion) is one action.  Listeners of the output  *)
(* EventEmitters are assumed not to call back into the directive           *)
(* synchronously.                                                          *)
(***************************************************************************)
EXTENDS Integers, Sequences, FiniteSets, TLC

\* ---- bounds -------------------------------------------------------------
MaxLoads == 2        \* effective load() calls (requests) per behaviour
MaxDebounce == 1     \* largest debounceTime input, in ticks
MaxViewLoads == 3    \* load() calls per behaviour when the views are followed

Data == {"d1", "d2"}         \* values a load function can emit / setData takes
Errors == {"e1", "e2"}       \* error values
Undefined == "undefined"
Null == "null"
Ids == 1..MaxLoads           \* a request (attempt) is named by its ordinal
\* TemplateRef values: the host element's own template (constructor) and the
\* values the two optional template inputs can be bound to
templateRef == "templateRef"
LoadingTemplates == {"loadingA", "loadingB"}
ErrorTemplates == {"errorA", "errorB"}

VARIABLES
  lifecycle,             \* "created" | "live" | "destroyed"
  loadingStateSnapshot,  \* scan accumulator = this.loadingStateSnapshot
  debounceTime,          \* @Input ngxLoadWithDebounceTime
  staleData,             \* @Input ngxLoadWithStaleData
  loadingTemplate,       \* @Input ngxLoadWithLoadingTemplate
  errorTemplate,         \* @Input ngxLoadWithErrorTemplate
  viewContainer,         \* the embedded views of this.viewContainer, in order
  loadedViewRef,         \* position of the loaded view in it (0: undefined)
  loadingViewRef,        \* position of the loading view in it (0: undefined)
  hasValue,              \* debounce operator: a value is buffered
  pending,               \* debounce operator: request whose duration timer runs (0: none)
  timerLeft,             \* ticks until that timer fires
  live,                  \* executions whose inner subscriber is open
  sources,               \* executions whose load-function stream can still produce
  reqCount,              \* number of requests that reached the pipeline
  invokeCount,           \* history: number of calls of the load function
  lastInvoked,           \* history: the request the load function was last called for
  aborted,               \* history: the attempt aborted most recently, by what, in which phase
  waited,                \* history: ticks since the pending request was issued
  window,                \* history: debounceTime in force when it was issued
  emitted,               \* history: notifications emitted by the last step
  lastOp,                \* history: the last step taken (a load() notes the error it
                         \* found, an input change without function or args "config")
  run,                   \* history: what the execution started last was fed and announced
  created,               \* history: the templates the last step created a view from
  recording              \* whether the histories that span steps are kept
                         \* (invokeCount, lastInvoked, aborted, waited, window, run)

vars == <<lifecycle, loadingStateSnapshot, debounceTime, staleData,
          loadingTemplate, errorTemplate, viewContainer, loadedViewRef,
          loadingViewRef, hasValue, pending, timerLeft, live, sources,
          reqCount, invokeCount, lastInvoked, aborted, waited, window,
          emitted, lastOp, run, created, recording>>

\* ---- LoadingState and its updates --------------------------------------

\* variant: the stream is seeded with loading = true
initialLoadingStateBusy ==
  [loading |-> TRUE, loaded |-> FALSE, error |-> Undefined, data |-> Undefined]

initialLoadingState ==
  [loading |-> FALSE, loaded |-> FALSE, error |-> Undefined, data |-> Undefined]

\* scan((state, update) => ({ ...state, ...update }))
Merge(state, update) ==
  [k \in DOMAIN state |-> IF k \in DOMAIN update THEN update[k] ELSE state[k]]

\* variant: the pre-result update does not clear the error
LoadingUpdateKeepsError == [loading |-> TRUE]

\* variant: the pre-result update clears the payload
LoadingUpdateClearsData == [loading |-> TRUE, error |-> Null, data |-> Undefined]

LoadingUpdate == [loading |-> TRUE, error |-> Null]

\* variant: a value does not end the loading flag
LoadedUpdateKeepsLoading(data) == [loaded |-> TRUE, data |-> data]

LoadedUpdate(data) == [loading |-> FALSE, loaded |-> TRUE, data |-> data]

\* variant: an error does not end the loading flag
ErrorUpdateKeepsLoading(error) == [error |-> error]

\* variant: an error resets loaded
ErrorUpdateResetsLoaded(error) ==
  [loading |-> FALSE, loaded |-> FALSE, error |-> error]

ErrorUpdate(error) == [loading |-> FALSE, error |-> error]

\* variant: the override forgets to clear the error
setDataOverrideKeepsError(data) ==
  [loaded |-> TRUE, loading |-> FALSE, data |-> data]

setDataOverride(data) ==
  [loaded |-> TRUE, loading |-> FALSE, data |-> data, error |-> Null]

\* variant: the override resets the loaded payload
setErrorOverrideClears(error) ==
  [error |-> error, loaded |-> FALSE, data |-> Undefined]

setErrorOverride(error) == [error |-> error]

Truthy(x) == x \notin {Undefined, Null}

\* variant: staleData is not consulted
getLoadingPhaseIgnoresStale(state, stale) ==
  IF Truthy(state.error) THEN "error"
  ELSE IF state.loaded /\ ~state.loading THEN "loaded"
  ELSE "loading"

\* variant: the loading flag is not consulted
getLoadingPhaseIgnoresLoading(state, stale) ==
  IF Truthy(state.error) THEN "error"
  ELSE IF state.loaded THEN "loaded"
  ELSE "loading"

\* variant: loaded is tested before error
getLoadingPhaseLoadedFirst(state, stale) ==
  IF state.loaded /\ (~state.loading \/ stale) THEN "loaded"
  ELSE IF Truthy(state.error) THEN "error"
  ELSE "loading"

getLoadingPhase(state, stale) ==
  IF Truthy(state.error) THEN "error"
  ELSE IF state.loaded /\ (~state.loading \/ stale) THEN "loaded"
  ELSE "loading"

\* ---- notifications ------------------------------------------------------

NoState == [loading |-> FALSE, loaded |-> FALSE, error |-> "-", data |-> "-"]

Note(type, id, val, st) == [type |-> type, id |-> id, val |-> val, st |-> st]

loadStart(id) == Note("loadStart", id, "-", NoState)
loadSuccess(id, v) == Note("loadSuccess", id, v, NoState)
loadError(id, e) == Note("loadError", id, e, NoState)
loadFinish(id) == Note("loadFinish", id, "-", NoState)
\* handleLoadingPhase: loadingStateChange.emit(state); id = attempt that caused
\* the update (0: override or initial state)
loadingStateChange(id, st) == Note("loadingStateChange", id, "-", st)
\* not a notification: the call this.loadFn(this.args), recorded in the same log
invoke(id) == Note("invoke", id, "-", NoState)

\* ---- the pipeline, as functions on a configuration ---------------------
\* A configuration is the part of the state one synchronous call chain can
\* touch; c.out collects, in order, the notifications emitted and the calls
\* made to the load function.

Cfg ==
  [st |-> loadingStateSnapshot, hasValue |-> hasValue, pending |-> pending,
   timerLeft |-> timerLeft, live |-> live, aborted |-> aborted,
   waited |-> waited, window |-> window, invokeCount |-> invokeCount,
   lastInvoked |-> lastInvoked, run |-> run, out |-> <<>>,
   staleData |-> staleData, loadingTemplate |-> loadingTemplate,
   errorTemplate |-> errorTemplate, viewContainer |-> viewContainer,
   loadedViewRef |-> loadedViewRef, loadingViewRef |-> loadingViewRef,
   made |-> <<>>]

\* history only: Append that keeps at most two consecutive copies of x
Collapse(log, x, y) ==
  IF x = y /\ Len(log) >= 2 /\ log[Len(log)] = y /\ log[Len(log) - 1] = y
    THEN log ELSE Append(log, x)

NoRun ==
  [id |-> 0, fed |-> <<>>, log |-> <<>>, starts |-> 0, finishes |-> 0,
   failed |-> FALSE, stray |-> FALSE]

\* history only: the output events of the execution started last, in order;
\* stray records an event of any other execution
Track(r, note) ==
  LET r1 == [r EXCEPT !.starts = IF note.type = "loadStart" THEN @ + 1 ELSE @,
                      !.finishes = IF note.type = "loadFinish" THEN @ + 1 ELSE @,
                      !.failed = @ \/ note.type = "loadError"]
  IN  IF note.type = "loadStart"
        THEN [r1 EXCEPT !.id = note.id, !.fed = <<>>, !.log = <<"loadStart">>]
      ELSE IF note.type \in {"loadSuccess", "loadError", "loadFinish"}
        THEN IF note.id = r.id
               THEN [r1 EXCEPT !.log = Collapse(@, note.type, "loadSuccess")]
               ELSE [r1 EXCEPT !.stray = TRUE]
      ELSE r1

\* history only: what the load function's stream hands to the open subscriber
\* of the execution started last (type "next", "error" or "complete")
Feed(c, id, ev) ==
  IF id \in c.live /\ id = c.run.id
    THEN [c EXCEPT !.run.fed = Collapse(@, ev.k, "next"),
                   !.out = Append(@, Note(ev.k, id, ev.v, NoState))]
    ELSE c

Emit(c, note) ==
  [c EXCEPT !.out = Append(@, note), !.run = Track(@, note)]

\* ---- template management -------------------------------------------------

\* an embedded view: the template it was created from and its context
\* ($implicit = ngxLoadWith for the loaded view; "-": no such property)
View(tpl, implicit, loading) ==
  [tpl |-> tpl, implicit |-> implicit, loading |-> loading]

\* viewContainer.createEmbeddedView(tpl, context)
createEmbeddedView(c, tpl, implicit, loading) ==
  [c EXCEPT !.viewContainer = Append(@, View(tpl, implicit, loading)),
            !.made = Append(@, tpl)]

clearViewContainer(c) ==
  [c EXCEPT !.viewContainer = <<>>, !.loadedViewRef = 0, !.loadingViewRef = 0]

handleErrorState(c, state) ==
  LET c1 == clearViewContainer(c)
  IN  IF c.errorTemplate # Undefined
        THEN createEmbeddedView(c1, c.errorTemplate, state.error, "-")
        ELSE c1

renderLoadingTemplate(c) ==
  LET c1 == clearViewContainer(c)
  IN  IF c.loadingTemplate # Undefined
        THEN [createEmbeddedView(c1, c.loadingTemplate, "-", "-")
                EXCEPT !.loadingViewRef = Len(c1.viewContainer) + 1]
        ELSE c1

\* variant: the loading view is rendered anew on every LOADING state
handleLoadingStateAnew(c) == renderLoadingTemplate(c)

handleLoadingState(c) ==
  IF c.loadingViewRef # 0 THEN c ELSE renderLoadingTemplate(c)

handleLoadedState(c, state) ==
  IF c.loadedViewRef # 0
    THEN [c EXCEPT !.viewContainer[c.loadedViewRef].implicit = state.data,
                   !.viewContainer[c.loadedViewRef].loading = state.loading]
    ELSE LET c1 == clearViewContainer(c)
         IN  [createEmbeddedView(c1, templateRef, state.data, state.loading)
                EXCEPT !.loadedViewRef = Len(c1.viewContainer) + 1]

\* this.loadingPhaseHandlers[phase](state)
loadingPhaseHandlers(c, phase, state) ==
  CASE phase = "loading" -> handleLoadingState(c)
    [] phase = "loaded" -> handleLoadedState(c, state)
    [] OTHER -> handleErrorState(c, state)

\* tap((state) => this.handleLoadingPhase(state)); id names the attempt that
\* caused the emission (0: override or initial state)
handleLoadingPhase(c, id, state) ==
  LET c1 == [c EXCEPT !.st = state,
                      !.out = Append(@, loadingStateChange(id, state))]
  IN  loadingPhaseHandlers(c1, getLoadingPhase(state, c.staleData), state)

\* variant: a changed template is rendered whatever the phase
handleTemplateChangesAnyPhase(c, changes, templateKey, phase) ==
  IF templateKey \in changes
    THEN IF phase = "loading" THEN renderLoadingTemplate(c)
         ELSE IF phase = "error" THEN handleErrorState(c, c.st)
         ELSE c
    ELSE c

handleTemplateChanges(c, changes, templateKey, phase) ==
  IF templateKey \in changes /\ getLoadingPhase(c.st, c.staleData) = phase
    THEN IF phase = "loading" THEN renderLoadingTemplate(c)
         ELSE IF phase = "error" THEN handleErrorState(c, c.st)
         ELSE c
    ELSE c

\* variant: states equal to the previous one are not announced
\* (distinctUntilChanged)
StateUpdateDistinct(c, id, update) ==
  LET s == Merge(c.st, update)
  IN  IF s = c.st THEN c
      ELSE [c EXCEPT !.st = s, !.out = Append(@, loadingStateChange(id, s))]

\* merge(...).pipe(scan(...)) followed by tap(handleLoadingPhase)
StateUpdate(c, id, update) == handleLoadingPhase(c, id, Merge(c.st, update))

\* variant: the executions are closed without finalize
FinalizeSilent(c, ids) == [c EXCEPT !.live = @ \ ids]

\* finalize(() => this.loadFinish.emit()) of each execution torn down
RECURSIVE Finalize(_, _)
Finalize(c, ids) ==
  IF ids = {} THEN c
  ELSE LET i == CHOOSE x \in ids : \A y \in ids : x <= y
       IN  Finalize(Emit([c EXCEPT !.live = @ \ {i}], loadFinish(i)),
                    ids \ {i})

Aborted(id, by, phase) == [id |-> id, by |-> by, phase |-> phase]

\* history only: remember which attempt a stop / switch / teardown hits
Mark(c, cause) ==
  IF c.pending # 0
    THEN [c EXCEPT !.aborted = Aborted(c.pending, cause, "debounce")]
  ELSE IF c.live # {}
    THEN [c EXCEPT !.aborted =
            Aborted(CHOOSE x \in c.live : \A y \in c.live : y <= x, cause,
                    "execution")]
  ELSE c

\* unsubscription of the debounce's duration timer: it never emits, so the
\* debounce operator never flushes the value it buffered
DropPending(c) ==
  [c EXCEPT !.pending = 0, !.timerLeft = 0, !.waited = 0, !.window = 0]

\* variant: the duration timer is not piped through takeUntil(stop$)
StopDebounceIgnored(c) == c

\* takeUntil(this.stop$) inside getDebounceFinished
StopDebounce(c) == DropPending(c)

\* variant: the execution is not piped through takeUntil(stop$)
StopExecutionIgnored(c) == c

\* takeUntil(this.stop$) inside executeLoadFnAndHandleResult
StopExecution(c) == Finalize(c, c.live)

\* one emission of stop$ = merge(loadCancelTrigger, loadingStateOverride)
Stop(c, cause) == StopExecution(StopDebounce(Mark(c, cause)))

\* variant: cancel() also merges { loading: false }
CancelResetsLoading(c, cause) ==
  LET c1 == StopExecution(StopDebounce(Mark(c, cause)))
      s == Merge(c1.st, [loading |-> FALSE])
  IN  [c1 EXCEPT !.st = s, !.out = Append(@, loadingStateChange(0, s))]

\* cancel(): this.loadCancelTrigger.next()
Cancel(c, cause) == Stop(c, cause)

\* variant: the duration timer ignores this.debounceTime (timer(0))
DebounceIgnoresTime(c, id, d) ==
  [DropPending(Mark(c, "superseded")) EXCEPT
     !.hasValue = TRUE, !.pending = id, !.timerLeft = 0, !.waited = 0,
     !.window = d]

\* debounce(() => this.getDebounceFinished()): a new source value
\* unsubscribes the running duration timer, buffers the value and starts a
\* timer of this.debounceTime || 0
Debounce(c, id, d) ==
  [DropPending(Mark(c, "superseded")) EXCEPT
     !.hasValue = TRUE, !.pending = id, !.timerLeft = d, !.waited = 0,
     !.window = d]

\* loadRequestTrigger.next(): first subscriber is getBeforeResultStateUpdates,
\* second is the debounce operator of getAfterResultStateUpdates
Request(c, id, d) == Debounce(StateUpdate(c, id, LoadingUpdate), id, d)

\* variant: stop$ does not include loadingStateOverride
OverrideNoStop(c, patch) ==
  LET s == Merge(c.st, patch)
  IN  [c EXCEPT !.st = s, !.out = Append(@, loadingStateChange(0, s))]

\* loadingStateOverride.next(patch): the merge inside loadingState$ subscribed
\* first (ngOnInit), the stop$ subscriptions of timer / execution later
Override(c, patch) == Stop(StateUpdate(c, 0, patch), "overridden")

\* variant: the execution ends with its first value (take(1))
OnNextTakeOne(c, id, v) ==
  IF id \notin c.live THEN c
  ELSE Finalize(StateUpdate(Emit(c, loadSuccess(id, v)), id, LoadedUpdate(v)),
                {id})

\* variant: a closed subscriber still passes values on
OnNextWhenClosed(c, id, v) ==
  StateUpdate(Emit(c, loadSuccess(id, v)), id, LoadedUpdate(v))

\* the execution's observer: tap(loadSuccess.emit), map(LoadedUpdate); a
\* closed subscriber ignores what its source still sends
OnNext(c, id, v) ==
  IF id \notin c.live THEN c
  ELSE StateUpdate(Emit(c, loadSuccess(id, v)), id, LoadedUpdate(v))

\* catchError(handleDataLoadingError): tap(loadError.emit), the update, then
\* of() completes and finalize runs
\* variant: a failed execution calls the load function again (retry(1))
OnErrorRetries(c, id, e) ==
  IF id \notin c.live THEN c
  ELSE [Emit(StateUpdate(Emit(c, loadError(id, e)), id, ErrorUpdate(e)),
             invoke(id))
          EXCEPT !.invokeCount = @ + 1]

OnError(c, id, e) ==
  IF id \notin c.live THEN c
  ELSE Finalize(StateUpdate(Emit(c, loadError(id, e)), id, ErrorUpdate(e)), {id})

OnComplete(c, id) ==
  IF id \notin c.live THEN c ELSE Finalize(c, {id})

\* what a load function does synchronously at subscription
Ev(k, v) == [k |-> k, v |-> v]
SyncBehaviours ==
  {<<>>, <<Ev("complete", "-")>>}
  \cup {<<Ev("next", v)>> : v \in Data}
  \cup {<<Ev("next", v), Ev("complete", "-")>> : v \in Data}
  \cup {<<Ev("error", e)>> : e \in Errors}

Terminates(b) == b # <<>> /\ b[Len(b)].k \in {"complete", "error"}

RECURSIVE Deliver(_, _, _)
Deliver(c, id, b) ==
  IF b = <<>> THEN c
  ELSE LET ev == Head(b)
           c0 == Feed(c, id, ev)
           c1 == CASE ev.k = "next" -> OnNext(c0, id, ev.v)
                   [] ev.k = "error" -> OnError(c0, id, ev.v)
                   [] OTHER -> OnComplete(c0, id)
       IN  Deliver(c1, id, Tail(b))

\* switchMap(() => this.executeLoadFnAndHandleResult()): unsubscribe the
\* previous inner subscription, call loadFn(args), subscribe to the result
SwitchMap(c, id, b) ==
  LET c1 == Finalize(Mark(c, "switched"), c.live)
      c2 == [Emit(c1, invoke(id)) EXCEPT !.live = @ \cup {id},
                                         !.invokeCount = @ + 1,
                                         !.lastInvoked = id]
  IN  Deliver(c2, id, b)

\* variant: the duration timer fires and the debounce flushes nothing
ElapsedDropsValue(c, b) ==
  [c EXCEPT !.pending = 0, !.timerLeft = 0, !.waited = 0, !.window = 0]

\* debounce's emit() when the duration timer fires, then tap(loadStart.emit)
\* and switchMap
Elapsed(c, b) ==
  LET id == c.pending
      c1 == [c EXCEPT !.pending = 0, !.timerLeft = 0, !.waited = 0, !.window = 0]
  IN  IF ~c.hasValue THEN c1
      ELSE SwitchMap(Emit([c1 EXCEPT !.hasValue = FALSE], loadStart(id)), id, b)

\* variant: load() does not call cancel()
LoadNoCancel(c, id, d) ==
  LET s == Merge(c.st, LoadingUpdate)
  IN  Debounce([c EXCEPT !.st = s, !.out = Append(@, loadingStateChange(id, s))],
               id, d)

\* load(): this.cancel(); this.loadRequestTrigger.next()
Load(c, id, d) == Request(Cancel(c, "superseded"), id, d)

\* variant: ngOnDestroy does not signal directiveDestroyed
DestroyNoTeardown(c) == c

\* takeUntil(this.directiveDestroyed): the whole chain is unsubscribed
Destroy(c) ==
  LET c1 == Mark(c, "destroyed") IN DropPending(Finalize(c1, c1.live))

Apply(c) ==
  /\ loadingStateSnapshot' = c.st
  /\ hasValue' = c.hasValue
  /\ pending' = c.pending
  /\ timerLeft' = c.timerLeft
  /\ live' = c.live
  /\ aborted' = IF recording THEN c.aborted ELSE aborted
  /\ waited' = IF recording THEN c.waited ELSE waited
  /\ window' = IF recording THEN c.window ELSE window
  /\ invokeCount' = IF recording THEN c.invokeCount ELSE invokeCount
  /\ lastInvoked' = IF recording THEN c.lastInvoked ELSE lastInvoked
  /\ emitted' = c.out
  /\ run' = IF recording THEN c.run ELSE run
  /\ viewContainer' = c.viewContainer
  /\ loadedViewRef' = c.loadedViewRef
  /\ loadingViewRef' = c.loadingViewRef
  /\ created' = c.made
  /\ recording' = recording

Op(op, id, arg) == [op |-> op, id |-> id, arg |-> arg]

\* ---- initial state ------------------------------------------------------

Constructed ==
  /\ lifecycle = "created"
  /\ loadingStateSnapshot = initialLoadingState
  /\ debounceTime = 0
  /\ staleData = FALSE
  /\ loadingTemplate = Undefined
  /\ errorTemplate = Undefined
  /\ viewContainer = <<>>
  /\ loadedViewRef = 0
  /\ loadingViewRef = 0
  /\ hasValue = FALSE
  /\ pending = 0
  /\ timerLeft = 0
  /\ live = {}
  /\ sources = {}
  /\ reqCount = 0
  /\ invokeCount = 0
  /\ lastInvoked = 0
  /\ aborted = Aborted(0, "none", "none")
  /\ waited = 0
  /\ window = 0
  /\ emitted = <<>>
  /\ lastOp = Op("init", 0, "-")
  /\ run = NoRun
  /\ created = <<>>

Init == Constructed /\ recording = TRUE

\* ---- actions ------------------------------------------------------------

\* variant: ngOnInit subscribes and does not load
ngOnInitNoLoad ==
  /\ lifecycle = "created"
  /\ lifecycle' = "live"
  /\ Apply(handleLoadingPhase(Cfg, 0, initialLoadingState))
  /\ lastOp' = Op("ngOnInit", 0, "-")
  /\ UNCHANGED <<debounceTime, staleData, loadingTemplate, errorTemplate,
                 sources, reqCount>>

\* ngOnInit: monitorAndHandleLoadingState() subscribes (startWith emits the
\* initial state), then load()
ngOnInit ==
  /\ lifecycle = "created"
  /\ lifecycle' = "live"
  /\ reqCount' = reqCount + 1
  /\ Apply(Load(handleLoadingPhase(Cfg, 0, initialLoadingState),
                reqCount + 1, debounceTime))
  /\ lastOp' = Op("ngOnInit", reqCount + 1, "-")
  /\ UNCHANGED <<debounceTime, staleData, loadingTemplate, errorTemplate,
                 sources>>

\* ngOnChanges(changes): Angular has assigned the changed inputs;
\* handleReloadTriggeringChanges calls load() when the load function or the
\* args changed
InputKeys ==
  {"ngxLoadWith", "args", "loadingTemplate", "errorTemplate", "debounceTime",
   "staleData"}

\* the SimpleChanges considered when no template is bound: every combination
\* of function, args, debounceTime and staleData
TemplateKeys == {"loadingTemplate", "errorTemplate"}
ChangeSets == (SUBSET (InputKeys \ TemplateKeys)) \ {{}}

\* variant: every input change reloads
shouldTriggerReloadAlways(changes) == changes # {}

shouldTriggerReload(changes) == changes \cap {"ngxLoadWith", "args"} # {}

\* history only: what an ngOnChanges step notes about its SimpleChanges
ChangeNote(changes) ==
  IF "ngxLoadWith" \in changes \/ "args" \in changes
    THEN loadingStateSnapshot.error ELSE "config"

\* this.handleTemplateChanges(changes, 'loadingTemplate', 'loading');
\* this.handleTemplateChanges(changes, 'errorTemplate', 'error')
TemplateChanges(c, changes) ==
  handleTemplateChanges(
    handleTemplateChanges(c, changes, "loadingTemplate", "loading"),
    changes, "errorTemplate", "error")

ngOnChanges(changes, d, s, lt, et, max) ==
  /\ lifecycle # "destroyed"
  /\ changes # {}
  /\ ("debounceTime" \in changes) = (d # debounceTime)
  /\ ("staleData" \in changes) = (s # staleData)
  /\ ("loadingTemplate" \in changes) = (lt # loadingTemplate)
  /\ ("errorTemplate" \in changes) = (et # errorTemplate)
  /\ debounceTime' = d
  /\ staleData' = s
  /\ loadingTemplate' = lt
  /\ errorTemplate' = et
  /\ LET c == [Cfg EXCEPT !.staleData = s, !.loadingTemplate = lt,
                          !.errorTemplate = et]
     IN  IF shouldTriggerReload(changes) /\ lifecycle = "live"
           THEN /\ reqCount < max
                /\ reqCount' = reqCount + 1
                /\ Apply(TemplateChanges(Load(c, reqCount + 1, d), changes))
                /\ lastOp' = Op("ngOnChanges", reqCount + 1, ChangeNote(changes))
           ELSE /\ reqCount' = reqCount
                /\ Apply(TemplateChanges(c, changes))
                /\ lastOp' = Op("ngOnChanges", 0, ChangeNote(changes))
  /\ UNCHANGED <<lifecycle, sources>>

ngOnDestroy ==
  /\ lifecycle = "live"
  /\ lifecycle' = "destroyed"
  /\ Apply(Destroy(Cfg))
  /\ lastOp' = Op("ngOnDestroy", 0, "-")
  /\ UNCHANGED <<debounceTime, staleData, loadingTemplate, errorTemplate,
                 sources, reqCount>>

\* load(): cancel(); loadRequestTrigger.next().  Before ngOnInit and after
\* ngOnDestroy the Subjects have no subscribers.  max bounds the requests of
\* a behaviour.
load(max) ==
  /\ reqCount < max
  /\ IF lifecycle = "live"
       THEN /\ reqCount' = reqCount + 1
            /\ Apply(Load(Cfg, reqCount + 1, debounceTime))
            /\ lastOp' = Op("load", reqCount + 1, loadingStateSnapshot.error)
       ELSE /\ reqCount' = reqCount
            /\ Apply(Cfg)
            /\ lastOp' = Op("load", 0, "-")
  /\ UNCHANGED <<lifecycle, debounceTime, staleData, loadingTemplate,
                 errorTemplate, sources>>

cancel ==
  /\ Apply(IF lifecycle = "live" THEN Cancel(Cfg, "cancelled") ELSE Cfg)
  /\ lastOp' = Op("cancel", 0, "-")
  /\ UNCHANGED <<lifecycle, debounceTime, staleData, loadingTemplate,
                 errorTemplate, sources, reqCount>>

setData(data) ==
  /\ Apply(IF lifecycle = "live" THEN Override(Cfg, setDataOverride(data)) ELSE Cfg)
  /\ lastOp' = Op("setData", 0, data)
  /\ UNCHANGED <<lifecycle, debounceTime, staleData, loadingTemplate,
                 errorTemplate, sources, reqCount>>

setError(error) ==
  /\ Apply(IF lifecycle = "live" THEN Override(Cfg, setErrorOverride(error)) ELSE Cfg)
  /\ lastOp' = Op("setError", 0, error)
  /\ UNCHANGED <<lifecycle, debounceTime, staleData, loadingTemplate,
                 errorTemplate, sources, reqCount>>

\* the duration timer of the debounce fires
DebounceElapsed ==
  /\ pending # 0
  /\ timerLeft = 0
  /\ \E b \in SyncBehaviours :
       /\ Apply(Elapsed(Cfg, b))
       /\ sources' = IF hasValue /\ ~Terminates(b) THEN sources \cup {pending}
                     ELSE sources
  /\ lastOp' = Op("DebounceElapsed", pending,
                  IF window > 0 THEN "debounced" ELSE "undebounced")
  /\ UNCHANGED <<lifecycle, debounceTime, staleData, loadingTemplate,
                 errorTemplate, reqCount>>

\* one unit of time passes; a due timer fires before time moves on
Tick ==
  /\ pending # 0 => timerLeft > 0
  /\ timerLeft' = IF pending # 0 THEN timerLeft - 1 ELSE timerLeft
  /\ waited' = IF pending # 0 /\ recording THEN waited + 1 ELSE waited
  /\ emitted' = <<>>
  /\ created' = <<>>
  /\ lastOp' = Op("Tick", 0, "-")
  /\ UNCHANGED <<lifecycle, loadingStateSnapshot, debounceTime, staleData,
                 loadingTemplate, errorTemplate, viewContainer, loadedViewRef,
                 loadingViewRef, hasValue, pending, live, sources, reqCount,
                 invokeCount, lastInvoked, aborted, window, run, recording>>

\* the load function's stream produces a value, fails or completes later;
\* an unsubscribed execution's stream may still do so (cooperative cancel)
LoadFnEmits(id, v) ==
  /\ id \in sources
  /\ Apply(Deliver(Cfg, id, <<Ev("next", v)>>))
  /\ lastOp' = Op("LoadFnEmits", id, "-")
  /\ UNCHANGED <<lifecycle, debounceTime, staleData, loadingTemplate,
                 errorTemplate, sources, reqCount>>

LoadFnErrors(id, e) ==
  /\ id \in sources
  /\ Apply(Deliver(Cfg, id, <<Ev("error", e)>>))
  /\ sources' = sources \ {id}
  /\ lastOp' = Op("LoadFnErrors", id, "-")
  /\ UNCHANGED <<lifecycle, debounceTime, staleData, loadingTemplate,
                 errorTemplate, reqCount>>

LoadFnCompletes(id) ==
  /\ id \in sources
  /\ Apply(Deliver(Cfg, id, <<Ev("complete", "-")>>))
  /\ sources' = sources \ {id}
  /\ lastOp' = Op("LoadFnCompletes", id, "-")
  /\ UNCHANGED <<lifecycle, debounceTime, staleData, loadingTemplate,
                 errorTemplate, reqCount>>

Next ==
  \/ ngOnInit
  \/ \E changes \in ChangeSets :
       \E d \in IF "debounceTime" \in changes THEN 0..MaxDebounce ELSE {debounceTime},
          s \in IF "staleData" \in changes THEN BOOLEAN ELSE {staleData},
          lt \in IF "loadingTemplate" \in changes
                   THEN LoadingTemplates \cup {Undefined} ELSE {loadingTemplate},
          et \in IF "errorTemplate" \in changes
                   THEN ErrorTemplates \cup {Undefined} ELSE {errorTemplate} :
         ngOnChanges(changes, d, s, lt, et, MaxLoads)
  \/ ngOnDestroy
  \/ load(MaxLoads)
  \/ cancel
  \/ \E data \in Data : setData(data)
  \/ \E error \in Errors : setError(error)
  \/ DebounceElapsed
  \/ Tick
  \/ \E id \in Ids, v \in Data : LoadFnEmits(id, v)
  \/ \E id \in Ids, e \in Errors : LoadFnErrors(id, e)
  \/ \E id \in Ids : LoadFnCompletes(id)

Spec == Init /\ [][Next]_vars

\* The machine of Spec in a smaller environment (of the inputs only
\* debounceTime changes, setData and setError take one value each), with the
\* progress the runtime provides: time passes and a due timer fires (the
\* timers of the debounce run on the event loop), and the subscribed stream of
\* the load function, while it can still produce, does produce a value or an
\* error unless it completes first.
NextLive ==
  \/ ngOnInit
  \/ \E d \in 0..MaxDebounce :
       ngOnChanges({"debounceTime"}, d, staleData, loadingTemplate,
                   errorTemplate, MaxLoads)
  \/ ngOnDestroy
  \/ load(MaxLoads)
  \/ cancel
  \/ setData("d1")
  \/ setError("e1")
  \/ DebounceElapsed
  \/ Tick
  \/ \E id \in Ids, v \in Data : LoadFnEmits(id, v)
  \/ \E id \in Ids, e \in Errors : LoadFnErrors(id, e)
  \/ \E id \in Ids : LoadFnCompletes(id)

Produces(id) ==
  \/ \E v \in Data : LoadFnEmits(id, v)
  \/ \E e \in Errors : LoadFnErrors(id, e)

LiveProduces == \E id \in live : Produces(id)

SpecLive ==
  /\ Init
  /\ [][NextLive]_vars
  /\ WF_vars(Tick)
  /\ WF_vars(DebounceElapsed)
  /\ WF_vars(LiveProduces)

\* The directive with its templates bound and re-bound, debounceTime left at
\* its default 0 (no timer ever waits for time to pass, so Tick is not
\* needed), followed over MaxViewLoads requests.  The histories that span
\* steps are not kept: what is followed here are the emissions of a step
\* (emitted, lastOp) and the view container.
InitView == Constructed /\ recording = FALSE

ViewChangeSets == (SUBSET (InputKeys \ {"ngxLoadWith", "debounceTime"})) \ {{}}

NextView ==
  \/ ngOnInit
  \/ \E changes \in ViewChangeSets :
       \E s \in IF "staleData" \in changes THEN BOOLEAN ELSE {staleData},
          lt \in IF "loadingTemplate" \in changes
                   THEN LoadingTemplates \cup {Undefined} ELSE {loadingTemplate},
          et \in IF "errorTemplate" \in changes
                   THEN ErrorTemplates \cup {Undefined} ELSE {errorTemplate} :
         ngOnChanges(changes, debounceTime, s, lt, et, MaxViewLoads)
  \/ ngOnDestroy
  \/ load(MaxViewLoads)
  \/ cancel
  \/ \E data \in Data : setData(data)
  \/ \E error \in Errors : setError(error)
  \/ DebounceElapsed
  \/ \E id \in 1..MaxViewLoads, v \in Data : LoadFnEmits(id, v)
  \/ \E id \in 1..MaxViewLoads, e \in Errors : LoadFnErrors(id, e)
  \/ \E id \in 1..MaxViewLoads : LoadFnCompletes(id)

SpecView == InitView /\ [][NextView]_vars

\* ---- properties ---------------------------------------------------------

Notes == {emitted[i] : i \in 1..Len(emitted)}
NotesNext == {emitted'[i] : i \in 1..Len(emitted')}
ResultTypes == {"loadSuccess", "loadError", "loadingStateChange"}
\* program state, without the history variables
progVars == <<lifecycle, loadingStateSnapshot, debounceTime, staleData,
              hasValue, pending, timerLeft, live>>
ZombieDelivery(by) ==
  /\ lastOp.op \in {"LoadFnEmits", "LoadFnErrors"}
  /\ aborted = Aborted(lastOp.id, by, "execution")

\* C1: supersession. Requests are numbered in call order, so every attempt
\* older than the latest load() has been superseded: no loadSuccess, no
\* loadError and no merged state update (each one is announced by a
\* loadingStateChange) ever stems from an attempt other than the latest.
C1_Supersession ==
  \A n \in Notes : n.type \in ResultTypes /\ n.id # 0 => n.id = reqCount

\* the stream of an execution that a later load() superseded while it was in
\* flight has just emitted or failed
C1_Witness == ZombieDelivery("superseded") /\ lastOp.id < reqCount

\* C2: at most one execution is live in every state, and whenever the load
\* function is called no execution is live any more in the state before.
C2_OneLiveExecution ==
  [][/\ Cardinality(live') <= 1
     /\ invokeCount' # invokeCount => live = {}]_vars

\* a second execution is live after the first was unsubscribed
C2_Witness ==
  \E i \in live : aborted.phase = "execution" /\ aborted.id < i /\ invokeCount >= 2

\* C3: debounce collapsing. The load function is called at most once per
\* step, only by the debounce timer, only for the latest load() call, only
\* when the full window of that call has elapsed, and never twice for the
\* same call.
C3_DebounceCollapsing ==
  [][invokeCount' # invokeCount =>
       /\ invokeCount' = invokeCount + 1
       /\ lastOp'.op = "DebounceElapsed"
       /\ \A n \in NotesNext : n.type = "invoke" => n.id = reqCount
       /\ lastInvoked' = reqCount
       /\ lastInvoked < reqCount
       /\ waited = window]_vars

\* the calls made so far collapsed into one invocation, made for the last of
\* them, after a non-zero window
C3_Witness ==
  /\ lastOp = Op("DebounceElapsed", reqCount, "debounced")
  /\ reqCount >= 2
  /\ invokeCount = 1
  /\ aborted = Aborted(reqCount - 1, "superseded", "debounce")

\* C4: override precedence. setData / setError leave nothing pending and
\* nothing live; results are only delivered by a live execution (or the one
\* started in the same step), the only other attributed update being the
\* pre-result update of a new load(); and while nothing is pending or live
\* the state only changes through load() or an override.
C4_OverridePrecedence ==
  [][/\ (lastOp'.op \in {"setData", "setError"} /\ lifecycle = "live")
          => (live' = {} /\ pending' = 0)
     /\ \A n \in NotesNext : n.type \in ResultTypes /\ n.id # 0 =>
          \/ n.id \in live
          \/ n.id = pending
          \/ /\ n = loadingStateChange(reqCount', Merge(loadingStateSnapshot, LoadingUpdate))
             /\ reqCount' # reqCount
     /\ (live = {} /\ pending = 0 /\
         lastOp'.op \notin {"load", "ngOnChanges", "ngOnInit", "setData", "setError"})
          => (loadingStateSnapshot' = loadingStateSnapshot /\
              \A n \in NotesNext : n.type \notin ResultTypes)]_vars

\* the stream of an execution aborted by an override has just emitted or
\* failed
C4_Witness == ZombieDelivery("overridden") /\ live = {} /\ pending = 0

\* C5: setData(x) on a live machine yields {loading:false, loaded:true,
\* data:x, error:null}, phase LOADED, the state a load delivering x yields.
C5_SetData ==
  [][(lastOp'.op = "setData" /\ lifecycle = "live") =>
       /\ loadingStateSnapshot' =
            [loading |-> FALSE, loaded |-> TRUE, error |-> Null,
             data |-> lastOp'.arg]
       /\ loadingStateSnapshot' =
            Merge(Merge(loadingStateSnapshot, LoadingUpdate),
                  LoadedUpdate(lastOp'.arg))
       /\ getLoadingPhase(loadingStateSnapshot', staleData') = "loaded"]_vars

\* setData was called while an execution was in flight
C5_Witness ==
  /\ lastOp.op = "setData"
  /\ lifecycle = "live"
  /\ aborted.by = "overridden"
  /\ loadingStateSnapshot.data = lastOp.arg

\* C6: setError(err) on a live machine yields error = err and loading =
\* false, as a failure of the load function with err does.
C6_SetErrorStopsLoading ==
  [][(lastOp'.op = "setError" /\ lifecycle = "live") =>
       /\ loadingStateSnapshot'.error = lastOp'.arg
       /\ loadingStateSnapshot'.loading = FALSE
       /\ loadingStateSnapshot'.error = Merge(loadingStateSnapshot, ErrorUpdate(lastOp'.arg)).error
       /\ loadingStateSnapshot'.loading = Merge(loadingStateSnapshot, ErrorUpdate(lastOp'.arg)).loading]_vars

\* C7: setError leaves loaded and data as they were.
C7_SetErrorFrame ==
  [][lastOp'.op = "setError" =>
       /\ loadingStateSnapshot'.loaded = loadingStateSnapshot.loaded
       /\ loadingStateSnapshot'.data = loadingStateSnapshot.data]_vars

\* setError was applied on top of a loaded payload
C7_Witness ==
  /\ lastOp.op = "setError"
  /\ lifecycle = "live"
  /\ loadingStateSnapshot.error = lastOp.arg
  /\ loadingStateSnapshot.loaded
  /\ loadingStateSnapshot.data \in Data

\* C8: cancel() merges nothing and emits no loadingStateChange; with nothing
\* pending and nothing live it changes no program state and emits nothing.
C8_CancelFrame ==
  [][lastOp'.op = "cancel" =>
       /\ loadingStateSnapshot' = loadingStateSnapshot
       /\ \A n \in NotesNext : n.type # "loadingStateChange"
       /\ (pending = 0 /\ live = {}) => (emitted' = <<>> /\ UNCHANGED progVars)
       /\ (pending' = 0 /\ live' = {})]_vars

\* cancel() hit a live machine in mid-load
C8_Witness ==
  /\ lastOp.op = "cancel"
  /\ lifecycle = "live"
  /\ aborted.by = "cancelled"
  /\ loadingStateSnapshot.loading

\* C9: a request cancelled by cancel() during its debounce window is never
\* executed: no call of the load function, no loadStart, no loadFinish (nor
\* any result) is ever recorded for it.
C9_CancelDropsPending ==
  (aborted.by = "cancelled" /\ aborted.phase = "debounce") =>
     /\ lastInvoked # aborted.id
     /\ \A n \in Notes : n.id = aborted.id =>
          n.type \notin {"invoke", "loadStart", "loadFinish", "loadSuccess", "loadError"}

\* time has passed after the cancel and no later load() was called
C9_Witness ==
  /\ lastOp.op = "Tick"
  /\ aborted = Aborted(reqCount, "cancelled", "debounce")
  /\ lifecycle = "live"
  /\ pending = 0

\* C10: loading = true implies an execution in flight or a debounce pending.
C10_LoadingMeansBusy ==
  loadingStateSnapshot.loading => (live # {} \/ pending # 0)

\* a step in which a load() call reached the pipeline
LoadStep == reqCount' # reqCount
Phase == getLoadingPhase(loadingStateSnapshot, staleData)
PhaseNext == getLoadingPhase(loadingStateSnapshot', staleData')
Busy == pending # 0 \/ live # {}

\* C11: every load() that reaches the pipeline merges {loading:true,
\* error:null} in the step of the call: the update is announced, the request
\* then waits in the debounce and the load function has not been called.
C11_PreResultUpdate ==
  [][LoadStep =>
       /\ loadingStateSnapshot'.loading = TRUE
       /\ loadingStateSnapshot'.error = Null
       /\ loadingStateSnapshot' = Merge(loadingStateSnapshot, [loading |-> TRUE, error |-> Null])
       /\ emitted'[Len(emitted')] = loadingStateChange(reqCount', loadingStateSnapshot')
       /\ pending' = reqCount'
       /\ invokeCount' = invokeCount]_vars

\* load() was called in a state that held an error: the error is gone while
\* the request still waits
C11_Witness ==
  /\ lastOp.op = "load"
  /\ lastOp.arg \in Errors
  /\ loadingStateSnapshot.error = Null
  /\ loadingStateSnapshot.loading
  /\ pending = reqCount

C13_StaleReload ==
  [][(staleData /\ staleData' /\ loadingStateSnapshot.loaded) =>
       /\ (LoadStep /\ Phase = "loaded") =>
            /\ PhaseNext = "loaded"
            /\ loadingStateSnapshot'.loading
            /\ loadingStateSnapshot'.data = loadingStateSnapshot.data
       /\ (Busy /\ Phase = "loaded" /\
           lastOp'.op \in {"Tick", "DebounceElapsed", "LoadFnEmits", "LoadFnCompletes"} /\
           \A n \in NotesNext : n.type # "loadError") =>
            /\ PhaseNext = "loaded"
            /\ \/ loadingStateSnapshot' = loadingStateSnapshot
               \/ \E n \in NotesNext :
                    /\ n.type = "loadSuccess"
                    /\ loadingStateSnapshot'.data = n.val
                    /\ ~loadingStateSnapshot'.loading]_vars

\* the reload of a loaded payload is in flight and shown as LOADED
C13_Witness ==
  /\ staleData
  /\ live = {reqCount}
  /\ reqCount >= 2
  /\ loadingStateSnapshot.loading
  /\ loadingStateSnapshot.data \in Data
  /\ Phase = "loaded"

\* C14: with staleData = false, a load() puts the phase to LOADING, and the
\* phase stays LOADING in every step that delivers no value and no error and
\* is no override.
C14_FreshReload ==
  [][(~staleData /\ ~staleData') =>
       /\ LoadStep => PhaseNext = "loading"
       /\ (Phase = "loading" /\ lastOp'.op \notin {"setData", "setError"} /\
           \A n \in NotesNext : n.type \notin {"loadSuccess", "loadError"})
            => PhaseNext = "loading"]_vars

\* a reload of a loaded payload is shown as LOADING
C14_Witness ==
  /\ ~staleData
  /\ lastOp.op = "load"
  /\ pending = reqCount
  /\ loadingStateSnapshot.loaded
  /\ loadingStateSnapshot.data \in Data
  /\ Phase = "loading"

\* every combination of field values, and the three phases as predicates
LoadingStates ==
  [loading : BOOLEAN, loaded : BOOLEAN, error : {Undefined, Null} \cup Errors,
   data : {Undefined} \cup Data]
RefError(st) == st.error \in Errors
RefLoaded(st, stale) == ~RefError(st) /\ st.loaded /\ (~st.loading \/ stale)
RefLoading(st, stale) == ~RefError(st) /\ ~RefLoaded(st, stale)

PhaseMatchesReference ==
  \A st \in LoadingStates, stale \in BOOLEAN :
    /\ (getLoadingPhase(st, stale) = "error") = RefError(st)
    /\ (getLoadingPhase(st, stale) = "loaded") = RefLoaded(st, stale)
    /\ (getLoadingPhase(st, stale) = "loading") = RefLoading(st, stale)

\* C15: the phase matches the reference definition on every combination of
\* field values, and exactly one of ERROR, LOADED, LOADING is selected.
C15_PhaseFunction ==
  /\ loadingStateSnapshot \in LoadingStates
  /\ PhaseMatchesReference

\* an error on top of a finished load: ERROR wins over LOADED
C15_Witness ==
  /\ loadingStateSnapshot.error \in Errors
  /\ loadingStateSnapshot.loaded
  /\ ~loadingStateSnapshot.loading
  /\ Phase = "error"

\* the subscriber of the execution started last has just been handed the
\* event that makes its input read as fed
JustFed(fed) ==
  /\ run'.fed = fed
  /\ \E n \in NotesNext : n.type \in {"next", "error", "complete"}

\* C16: success path. An execution whose load function emits one value v and
\* completes announces exactly loadStart, loadSuccess(v), loadFinish in this
\* order and leaves {loading:false, loaded:true, data:v} with error null or
\* undefined; loadSuccess(v) and the merge of v follow the value at once.
C16_SuccessPath ==
  [][/\ \A i \in DOMAIN emitted' : emitted'[i].type = "next" =>
          /\ i + 2 <= Len(emitted')
          /\ emitted'[i + 1] = loadSuccess(emitted'[i].id, emitted'[i].val)
          /\ emitted'[i + 2].type = "loadingStateChange"
          /\ emitted'[i + 2].st.data = emitted'[i].val
          /\ loadingStateSnapshot'.data = emitted'[i].val
     /\ JustFed(<<"next", "complete">>) =>
          /\ run'.log = <<"loadStart", "loadSuccess", "loadFinish">>
          /\ ~run'.stray
          /\ loadingStateSnapshot'.loading = FALSE
          /\ loadingStateSnapshot'.loaded = TRUE
          /\ loadingStateSnapshot'.error \in {Null, Undefined}
          /\ (\A n \in NotesNext : n.type # "next") =>
               loadingStateSnapshot'.data = loadingStateSnapshot.data]_vars

\* an execution got one value and completed in a later step
C16_Witness ==
  /\ lastOp.op = "LoadFnCompletes"
  /\ lastOp.id = run.id
  /\ run.fed = <<"next", "complete">>
  /\ run.log = <<"loadStart", "loadSuccess", "loadFinish">>
  /\ loadingStateSnapshot.data \in Data

\* C17: error path. An execution whose load function fails with e announces
\* exactly loadStart, loadError(e), loadFinish in this order and leaves
\* loading = false and error = e, the very value; the phase is ERROR.
C17_ErrorPath ==
  [][JustFed(<<"error">>) =>
       /\ run'.log = <<"loadStart", "loadError", "loadFinish">>
       /\ ~run'.stray
       /\ \E i \in DOMAIN emitted' :
            /\ emitted'[i].type = "error"
            /\ i + 1 <= Len(emitted')
            /\ emitted'[i + 1] = loadError(emitted'[i].id, emitted'[i].val)
            /\ loadingStateSnapshot'.error = emitted'[i].val
       /\ loadingStateSnapshot'.loading = FALSE
       /\ PhaseNext = "error"]_vars

\* an execution failed some time after it had started
C17_Witness ==
  /\ lastOp.op = "LoadFnErrors"
  /\ lastOp.id = run.id
  /\ run.fed = <<"error">>
  /\ run.log = <<"loadStart", "loadError", "loadFinish">>
  /\ loadingStateSnapshot.error \in Errors
  /\ Phase = "error"

\* loadStart, loadSuccess*, loadError?, loadFinish? as a condition on a log
WellOrdered(log) ==
  \/ log = <<>>
  \/ /\ log[1] = "loadStart"
     /\ \A i \in 2..Len(log) :
          /\ log[i] # "loadStart"
          /\ log[i] \in {"loadSuccess", "loadError"} =>
               log[i - 1] \in {"loadStart", "loadSuccess"}
          /\ log[i] = "loadFinish" =>
               log[i - 1] \in {"loadStart", "loadSuccess", "loadError"}

\* C18: the notifications of an execution come as loadStart, then loadSuccess
\* any number of times, then at most one loadError, then loadFinish; none of
\* them belongs to an execution other than the one started last.
C18_NotificationOrder ==
  /\ ~run.stray
  /\ WellOrdered(run.log)

\* values, then an error, then the end
C18_Witness ==
  run.log = <<"loadStart", "loadSuccess", "loadSuccess", "loadError", "loadFinish">>

Count(log, x) == Cardinality({i \in DOMAIN log : log[i] = x})

\* C19: an execution that started and is no longer live has announced
\* loadFinish exactly once, a live one not yet, whatever ended it; loadFinish
\* is never announced more often than loadStart.
C19_FinishOnce ==
  /\ run.finishes <= run.starts
  /\ run.starts - run.finishes = Cardinality(live)
  /\ ~run.stray
  /\ live \subseteq {run.id}
  /\ run.id \in live => Count(run.log, "loadFinish") = 0
  /\ (run.id # 0 /\ run.id \notin live) => Count(run.log, "loadFinish") = 1

\* the owner was destroyed while an execution was live
C19_Witness ==
  /\ lastOp.op = "ngOnDestroy"
  /\ aborted = Aborted(run.id, "destroyed", "execution")
  /\ emitted = <<loadFinish(run.id)>>
  /\ run.finishes = run.starts

\* C20: teardown. Once the owner is destroyed no execution is live and no
\* request waits; no loadingStateChange, loadSuccess, loadError, loadStart
\* or call of the load function happens in or after the destruction, and
\* afterwards every step leaves the state alone and announces nothing.
C20_Teardown ==
  [][lifecycle' = "destroyed" =>
       /\ live' = {}
       /\ pending' = 0
       /\ \A n \in NotesNext :
            n.type \notin ResultTypes \cup {"loadStart", "invoke"}
       /\ lifecycle = "destroyed" =>
            /\ loadingStateSnapshot' = loadingStateSnapshot
            /\ invokeCount' = invokeCount
            /\ emitted' = <<>>]_vars

\* the stream of an execution that the destruction unsubscribed has emitted
C20_Witness ==
  /\ lifecycle = "destroyed"
  /\ ZombieDelivery("destroyed")

\* C21: multi-emission. Every value handed to a live execution is announced
\* by loadSuccess(v) and merged as {loading:false, loaded:true, data:v}; the
\* execution stays live unless the same step completes or fails it; while it
\* stays live without a new value the data is untouched; and an execution
\* only stops being live by completion, error, cancel(), an override, a
\* load() or the destruction.
C21_MultiEmission ==
  [][/\ \A i \in DOMAIN emitted' : emitted'[i].type = "next" =>
          /\ i + 2 <= Len(emitted')
          /\ emitted'[i + 1] = loadSuccess(emitted'[i].id, emitted'[i].val)
          /\ emitted'[i + 2].type = "loadingStateChange"
          /\ emitted'[i + 2].st.loading = FALSE
          /\ emitted'[i + 2].st.loaded = TRUE
          /\ emitted'[i + 2].st.data = emitted'[i].val
          /\ loadingStateSnapshot' = emitted'[i + 2].st
          /\ (\A n \in NotesNext : n.type \notin {"complete", "error"}) =>
               emitted'[i].id \in live'
     /\ \A id \in live \cap live' :
          (\A n \in NotesNext : n.type # "next") =>
             loadingStateSnapshot'.data = loadingStateSnapshot.data
     /\ \A id \in live \ live' :
          lastOp'.op \in {"LoadFnCompletes", "LoadFnErrors", "cancel", "setData",
                          "setError", "load", "ngOnChanges", "ngOnDestroy"}]_vars

\* a live execution has just merged its second (or a later) value and is
\* still live
C21_Witness ==
  /\ lastOp.op = "LoadFnEmits"
  /\ lastOp.id = run.id
  /\ run.fed = <<"next", "next">>
  /\ run.log = <<"loadStart", "loadSuccess", "loadSuccess">>
  /\ run.id \in live
  /\ loadingStateSnapshot.data \in Data
  /\ ~loadingStateSnapshot.loading

\* C22: an input change on the live directive starts a load exactly when the
\* changed inputs include the load function or the args; a change of only
\* staleData, debounceTime, loadingTemplate or errorTemplate neither calls
\* the load function nor touches the loading state, the waiting request or
\* the live execution, and announces nothing.
C22_ReloadTriggers ==
  [][lastOp'.op = "ngOnChanges" =>
       /\ lifecycle = "live" => (LoadStep <=> lastOp'.arg # "config")
       /\ lastOp'.arg = "config" =>
            /\ loadingStateSnapshot' = loadingStateSnapshot
            /\ invokeCount' = invokeCount
            /\ emitted' = <<>>
            /\ pending' = pending
            /\ live' = live
            /\ reqCount' = reqCount]_vars

\* an input change without function or args arrived while a request waited
\* (its debounceTime or staleData input took a new value); nothing was
\* disturbed
C22_Witness ==
  /\ lastOp = Op("ngOnChanges", 0, "config")
  /\ lifecycle = "live"
  /\ pending # 0
  /\ (debounceTime # 0 \/ staleData)
  /\ loadingStateSnapshot.loaded

\* C23: initial state. Until ngOnInit the state is {loading:false,
\* loaded:false} with error and data undefined and its phase is LOADING; this
\* state is the first one announced at subscription; the load function has
\* not been called as long as no load() has reached the pipeline.
C23_InitialState ==
  /\ lifecycle = "created" =>
       /\ loadingStateSnapshot =
            [loading |-> FALSE, loaded |-> FALSE, error |-> Undefined,
             data |-> Undefined]
       /\ Phase = "loading"
       /\ emitted = <<>>
  /\ lastOp.op = "ngOnInit" =>
       /\ emitted[1] =
            loadingStateChange(0, [loading |-> FALSE, loaded |-> FALSE,
                                   error |-> Undefined, data |-> Undefined])
       /\ getLoadingPhase(emitted[1].st, staleData) = "loading"
  /\ reqCount = 0 => invokeCount = 0
  /\ invokeCount > 0 => lastInvoked \in 1..reqCount

\* the subscription has just announced the initial state, nothing was loaded
C23_Witness ==
  /\ lastOp.op = "ngOnInit"
  /\ Len(emitted) = 2
  /\ emitted[1].id = 0
  /\ ~emitted[1].st.loading
  /\ invokeCount = 0

\* C24: a failure is not fatal. Whatever happened before, a value v handed
\* to the execution of a load() leaves exactly {loading:false, loaded:true,
\* data:v, error:null}, and the directive is still live.
C24_Recoverable ==
  [][\A n \in NotesNext : n.type = "next" =>
       /\ loadingStateSnapshot' =
            [loading |-> FALSE, loaded |-> TRUE, data |-> n.val, error |-> Null]
       /\ PhaseNext = "loaded"
       /\ lifecycle' = "live"]_vars

\* an execution started after an earlier one had failed got its value
C24_Witness ==
  /\ run.failed
  /\ run.fed = <<"next">>
  /\ run.log = <<"loadStart", "loadSuccess">>
  /\ lastOp.id = run.id
  /\ lastOp.op \in {"DebounceElapsed", "LoadFnEmits"}
  /\ loadingStateSnapshot.error = Null
  /\ loadingStateSnapshot.data \in Data

\* C25: no automatic retry. The load function is called only when the timer
\* of a waiting request fires, once per request and for that request; a
\* request only starts to wait in a step in which a load() reached the
\* pipeline; the number of calls never exceeds the number of such load()s.
C25_NoAutoRetry ==
  [][/\ invokeCount' # invokeCount =>
          /\ invokeCount' = invokeCount + 1
          /\ lastOp'.op = "DebounceElapsed"
          /\ pending # 0
          /\ lastInvoked' = pending
          /\ lastInvoked' > lastInvoked
     /\ (pending' # 0 /\ pending' # pending) => LoadStep
     /\ invokeCount' <= reqCount'
     /\ Cardinality({i \in DOMAIN emitted' : emitted'[i].type = "invoke"})
          = invokeCount' - invokeCount]_vars

\* time passes after a failure and nothing is called again
C25_Witness ==
  /\ lastOp.op = "Tick"
  /\ run.log = <<"loadStart", "loadError", "loadFinish">>
  /\ loadingStateSnapshot.error \in Errors
  /\ invokeCount = 1
  /\ pending = 0
  /\ live = {}

C27_StateChangeNotified ==
  [][/\ LoadStep =>
          /\ emitted' # <<>>
          /\ emitted'[Len(emitted')] = loadingStateChange(reqCount', loadingStateSnapshot')
     /\ (lastOp'.op \in {"setData", "setError"} /\ lifecycle = "live") =>
          /\ emitted' # <<>>
          /\ emitted'[1].type = "loadingStateChange"
          /\ emitted'[1].st = loadingStateSnapshot'
     /\ \A i \in DOMAIN emitted' :
          emitted'[i].type \in {"loadSuccess", "loadError"} =>
            /\ i < Len(emitted')
            /\ emitted'[i + 1].type = "loadingStateChange"
            /\ emitted'[i + 1].id = emitted'[i].id
            /\ emitted'[i + 1].st = loadingStateSnapshot'
     /\ lastOp'.op = "ngOnInit" =>
          /\ emitted' # <<>>
          /\ emitted'[1] = loadingStateChange(0, loadingStateSnapshot)
     /\ loadingStateSnapshot' # loadingStateSnapshot =>
          \E n \in NotesNext : /\ n.type = "loadingStateChange"
                               /\ n.st = loadingStateSnapshot']_vars

\* a load() replaced a request that still waited: its update changed no field
\* (loading was true and error null already) and was announced all the same
C27_Witness ==
  /\ lastOp = Op("load", reqCount, Null)
  /\ aborted = Aborted(reqCount - 1, "superseded", "debounce")
  /\ loadingStateSnapshot.loading
  /\ emitted = <<loadingStateChange(reqCount, loadingStateSnapshot)>>

\* C28: loaded becomes true exactly when a value of the load function or a
\* setData override is merged, never goes back to false, and as long as it
\* is false the data is undefined.
C28_LoadedFlag ==
  [][/\ loadingStateSnapshot.loaded => loadingStateSnapshot'.loaded
     /\ loadingStateSnapshot'.loaded # loadingStateSnapshot.loaded =>
          \/ \E n \in NotesNext : n.type = "loadSuccess"
          \/ lastOp'.op = "setData"
     /\ ((\E n \in NotesNext : n.type = "loadSuccess") \/
         (lastOp'.op = "setData" /\ lifecycle = "live")) =>
          loadingStateSnapshot'.loaded
     /\ ~loadingStateSnapshot'.loaded =>
          loadingStateSnapshot'.data = Undefined]_vars

\* a failure after a value: loaded is still true
C28_Witness ==
  /\ lastOp.op = "LoadFnErrors"
  /\ lastOp.id = run.id
  /\ run.log = <<"loadStart", "loadSuccess", "loadError", "loadFinish">>
  /\ loadingStateSnapshot.loaded
  /\ loadingStateSnapshot.error \in Errors

C30_Startup ==
  [][/\ (lifecycle = "created" /\ lastOp'.op # "ngOnInit") =>
          /\ loadingStateSnapshot' = loadingStateSnapshot
          /\ reqCount' = 0
          /\ pending' = 0
          /\ invokeCount' = 0
          /\ emitted' = <<>>
     /\ lastOp'.op = "ngOnInit" =>
          /\ reqCount' = 1
          /\ pending' = 1
          /\ invokeCount' = 0
     /\ (lastOp'.op = "DebounceElapsed" /\ pending = 1) =>
          /\ invokeCount = 0
          /\ invokeCount' = 1
          /\ lastInvoked' = 1
          /\ Cardinality({i \in DOMAIN emitted' : emitted'[i].type = "invoke"}) = 1]_vars

\* the request of ngOnInit, undisturbed, has led to the one call
C30_Witness ==
  /\ lastOp.op = "DebounceElapsed"
  /\ lastOp.id = 1
  /\ reqCount = 1
  /\ invokeCount = 1
  /\ aborted.id = 0

\* C31: an override bypasses the load pipeline. setData / setError never call
\* the load function and never announce loadStart, loadSuccess or loadError;
\* issued while a request waits in its debounce window they drop that
\* request; and as long as the dropped request is the latest one, the load
\* function is not called and the state changes only by further overrides.
C31_OverrideBypass ==
  [][/\ lastOp'.op \in {"setData", "setError"} =>
          /\ invokeCount' = invokeCount
          /\ \A n \in NotesNext :
               n.type \notin {"invoke", "loadStart", "loadSuccess", "loadError"}
          /\ (lifecycle = "live" /\ pending # 0) =>
               /\ pending' = 0
               /\ aborted' = Aborted(pending, "overridden", "debounce")
     /\ (aborted = Aborted(reqCount', "overridden", "debounce")) =>
          /\ invokeCount' = invokeCount
          /\ lastInvoked' # aborted.id
          /\ \A n \in NotesNext : n.type \notin {"invoke", "loadStart"}
          /\ loadingStateSnapshot' # loadingStateSnapshot =>
               lastOp'.op \in {"setData", "setError"}]_vars

\* setData replaced a request that waited; time has passed since, the load
\* function was never called and the overridden state is still there
C31_Witness ==
  /\ lastOp.op = "Tick"
  /\ aborted = Aborted(reqCount, "overridden", "debounce")
  /\ invokeCount = 0
  /\ pending = 0
  /\ loadingStateSnapshot.data \in Data
  /\ ~loadingStateSnapshot.loading

\* C32: updates are shallow merges. A failure of the load function changes
\* only loading and error: loaded and data keep their values, so a failure
\* after an earlier success leaves loaded = true with the old data in phase
\* ERROR. A value changes only loading, loaded and data: error keeps its
\* value.
C32_ShallowMerge ==
  [][/\ \A n \in NotesNext : n.type = "loadError" =>
          /\ loadingStateSnapshot' =
               [loadingStateSnapshot EXCEPT !.loading = FALSE, !.error = n.val]
          /\ loadingStateSnapshot'.loaded = loadingStateSnapshot.loaded
          /\ loadingStateSnapshot'.data = loadingStateSnapshot.data
          /\ PhaseNext = "error"
     /\ \A n \in NotesNext : n.type = "loadSuccess" =>
          /\ loadingStateSnapshot' =
               [loadingStateSnapshot EXCEPT !.loading = FALSE, !.loaded = TRUE,
                                            !.data = n.val]
          /\ loadingStateSnapshot'.error = loadingStateSnapshot.error]_vars

\* the reload of a loaded payload has failed: the payload is still there
C32_Witness ==
  /\ lastOp.op \in {"LoadFnErrors", "DebounceElapsed"}
  /\ lastOp.id = reqCount
  /\ reqCount >= 2
  /\ run.fed = <<"error">>
  /\ loadingStateSnapshot.loaded
  /\ loadingStateSnapshot.data \in Data
  /\ loadingStateSnapshot.error \in Errors
  /\ ~loadingStateSnapshot.loading
  /\ Phase = "error"

\* C33: load() cancels before it requests. A load() that finds an execution
\* live announces that execution's loadFinish first and only then merges and
\* announces its own pre-result update, leaving nothing live; and loadStart
\* is only ever announced while no execution is live, every earlier one
\* having finished: the notification windows of two executions never overlap.
C33_CancelBeforeRequest ==
  [][/\ (LoadStep /\ live # {}) =>
          /\ live' = {}
          /\ Len(emitted') = 2
          /\ emitted'[1].type = "loadFinish"
          /\ emitted'[1].id \in live
          /\ emitted'[2] =
               loadingStateChange(reqCount',
                                  Merge(loadingStateSnapshot, [loading |-> TRUE, error |-> Null]))
          /\ loadingStateSnapshot' = emitted'[2].st
     /\ LoadStep => \A n \in NotesNext : n.type # "loadStart"
     /\ (\E n \in NotesNext : n.type = "loadStart") =>
          /\ live = {}
          /\ run.starts = run.finishes]_vars

\* a load() has just replaced an execution in flight
C33_Witness ==
  /\ lastOp.op = "load"
  /\ lifecycle = "live"
  /\ reqCount >= 2
  /\ aborted = Aborted(reqCount - 1, "superseded", "execution")
  /\ emitted = <<loadFinish(reqCount - 1),
                 loadingStateChange(reqCount, loadingStateSnapshot)>>
  /\ pending = reqCount

\* C36: the error state is quiescent. In every reachable state whose error
\* is truthy no request waits in the debounce and no execution is live.
C36_ErrorQuiescent ==
  Truthy(loadingStateSnapshot.error) => (pending = 0 /\ live = {})

\* setError has hit an execution in flight and ended it
C36_Witness ==
  /\ lastOp.op = "setError"
  /\ loadingStateSnapshot.error = lastOp.arg
  /\ aborted = Aborted(reqCount, "overridden", "execution")
  /\ emitted[Len(emitted)] = loadFinish(reqCount)
  /\ live = {}
  /\ pending = 0

\* C37: while a request waits in its debounce window, and while an execution
\* is live that has not been handed a value yet, the state has loading =
\* true and error = null.
C37_BusyMeansLoading ==
  (\/ pending # 0
   \/ \E id \in live : id = run.id /\ \A i \in DOMAIN run.fed : run.fed[i] # "next")
    => (loadingStateSnapshot.loading /\ loadingStateSnapshot.error = Null)

\* after a failure, the execution of a further load() is in flight and has
\* delivered nothing yet
C37_Witness ==
  /\ run.failed
  /\ live = {reqCount}
  /\ run.id = reqCount
  /\ run.fed = <<>>
  /\ loadingStateSnapshot.loading
  /\ loadingStateSnapshot.error = Null

\* the states announced by the step, and the phase each had when announced
Emissions == {n \in NotesNext : n.type = "loadingStateChange"}
EmittedPhases == {getLoadingPhase(n.st, staleData') : n \in Emissions}
LoadingView(tpl) == View(tpl, "-", "-")

\* C34: the loading view is created at most once over consecutive LOADING
\* states. A step that binds no other loading template and whose announced
\* states all have phase LOADING creates no view and leaves the container
\* alone when the loading view is displayed already, and otherwise creates at
\* most one view, the loading view, however many states it announces.
C34_LoadingViewOnce ==
  [][(Emissions # {} /\ EmittedPhases = {"loading"} /\
      loadingTemplate' = loadingTemplate) =>
       /\ loadingViewRef # 0 =>
            /\ created' = <<>>
            /\ viewContainer' = viewContainer
            /\ loadingViewRef' = loadingViewRef
       /\ Len(created') <= 1
       /\ created' # <<>> =>
            /\ created' = <<loadingTemplate>>
            /\ viewContainer' = <<LoadingView(loadingTemplate)>>
            /\ loadingViewRef' = 1]_vars

\* the third load() in a row without any result in between: the loading view
\* of the first is still the one displayed
C34_Witness ==
  /\ lastOp.op = "load"
  /\ reqCount = 3
  /\ ~loadingStateSnapshot.loaded
  /\ loadingStateSnapshot.loading
  /\ loadingTemplate # Undefined
  /\ viewContainer = <<LoadingView(loadingTemplate)>>
  /\ loadingViewRef = 1
  /\ created = <<>>
  /\ emitted # <<>>

ErrorView(tpl, error) == View(tpl, error, "-")
LoadingTemplateChanged == loadingTemplate' # loadingTemplate
ErrorTemplateChanged == errorTemplate' # errorTemplate

\* C35: a change of the loadingTemplate input in phase LOADING, or of the
\* errorTemplate input in phase ERROR, replaces the displayed view by one
\* created from the new template (by no view if the input is now undefined);
\* a template change in any other phase creates nothing and leaves the
\* container alone; and an input change that consists of template inputs
\* only leaves the loading state, the waiting request and the live execution
\* alone, starts no load and announces nothing.
C35_TemplateChange ==
  [][(LoadingTemplateChanged \/ ErrorTemplateChanged) =>
       /\ lastOp'.op = "ngOnChanges"
       /\ (LoadingTemplateChanged /\ PhaseNext = "loading") =>
            /\ viewContainer' =
                 IF loadingTemplate' = Undefined THEN <<>>
                 ELSE <<LoadingView(loadingTemplate')>>
            /\ loadingTemplate' # Undefined =>
                 created'[Len(created')] = loadingTemplate'
       /\ (ErrorTemplateChanged /\ PhaseNext = "error") =>
            /\ viewContainer' =
                 IF errorTemplate' = Undefined THEN <<>>
                 ELSE <<ErrorView(errorTemplate', loadingStateSnapshot'.error)>>
            /\ errorTemplate' # Undefined =>
                 created'[Len(created')] = errorTemplate'
       /\ (/\ ~LoadStep
           /\ LoadingTemplateChanged => PhaseNext # "loading"
           /\ ErrorTemplateChanged => PhaseNext # "error") =>
            /\ created' = <<>>
            /\ viewContainer' = viewContainer
            /\ loadedViewRef' = loadedViewRef
            /\ loadingViewRef' = loadingViewRef
       /\ lastOp'.arg = "config" =>
            /\ loadingStateSnapshot' = loadingStateSnapshot
            /\ reqCount' = reqCount
            /\ pending' = pending
            /\ live' = live
            /\ emitted' = <<>>]_vars

\* while a request waits, the loading view of one template has just been
\* replaced by the loading view of another
C35_Witness ==
  /\ lastOp = Op("ngOnChanges", 0, "config")
  /\ lifecycle = "live"
  /\ pending # 0
  /\ Phase = "loading"
  /\ loadingTemplate = "loadingB"
  /\ created = <<"loadingB">>
  /\ viewContainer = <<LoadingView("loadingB")>>
  /\ loadingViewRef = 1

LoadedView(data, loading) == View(templateRef, data, loading)

\* C38: after every state emission the view container holds at most one
\* view, the one for the phase of the emitted state under the staleData value
\* of that moment: for ERROR the error view with the error, for LOADED the
\* loaded view with data and loading of the state, for LOADING a loading
\* view; and no view when the template of that phase is not provided.
C38_ViewMatchesPhase ==
  [][Emissions # {} =>
       /\ Len(viewContainer') <= 1
       /\ PhaseNext = "error" =>
            viewContainer' =
              IF errorTemplate' = Undefined THEN <<>>
              ELSE <<ErrorView(errorTemplate', loadingStateSnapshot'.error)>>
       /\ PhaseNext = "loaded" =>
            viewContainer' =
              <<LoadedView(loadingStateSnapshot'.data, loadingStateSnapshot'.loading)>>
       /\ PhaseNext = "loading" =>
            IF loadingTemplate' = Undefined THEN viewContainer' = <<>>
            ELSE /\ Len(viewContainer') = 1
                 /\ viewContainer'[1].tpl \in LoadingTemplates]_vars

\* request k was disturbed: a later load(), or a cancel(), setData(),
\* setError() or destroy that hit it while it waited or ran
Disturbed(k) ==
  \/ reqCount > k
  \/ aborted.id = k
  \/ lifecycle = "destroyed"

\* the stream of request k completed without a value and without an error
CompletedEmpty(k) == run.id = k /\ run.fed = <<"complete">>

Settled ==
  /\ ~loadingStateSnapshot.loading
  /\ loadingStateSnapshot.loaded \/ Truthy(loadingStateSnapshot.error)

\* C39: a request that waits in the debounce and is not disturbed by a later
\* load(), cancel(), setData(), setError() or destroy leads to the call of
\* the load function, and, unless its stream completes empty, to a state
\* with loading = false and loaded = true or an error set.
C39_Liveness ==
  \A k \in Ids :
    (pending = k) ~>
      \/ Disturbed(k)
      \/ lastInvoked = k /\ (CompletedEmpty(k) \/ Settled)

\* the last request waited through a debounce window, was not disturbed, and
\* its stream has just failed after the call returned
C39_Witness ==
  /\ lastOp = Op("LoadFnErrors", reqCount, "-")
  /\ lastInvoked = reqCount
  /\ ~Disturbed(reqCount)
  /\ debounceTime = MaxDebounce
  /\ Settled
  /\ ~loadingStateSnapshot.loaded

====
